---- MODULE Spec2Model ----
(***************************************************************************)
(* examples/dump/filesystem.cpp of HadesMem: the recursive directory       *)
(* walker DumpDir, the per-file task DumpFile, and the bounded thread pool *)
(* the walker feeds through the loop "WaitForSlot(); QueueTask(task)".     *)
(***************************************************************************)
EXTENDS Integers, Sequences, FiniteSets, TLC

(***************************************************************************)
(* Bounds of the model.                                                    *)
(***************************************************************************)
\* largest pool capacity C tried
MaxCap == 2
\* I/O faults the environment may inject in one walk
MaxFaults == 1
\* stages of one DumpFile run that may fail together
MaxStageFaults == 2
\* plain files per pool slot in the burst directory
BurstFactor == 10
\* DumpDir calls that may be active at once
MaxDepth == 4
\* tasks other producers submit to the pool during one walk
MaxOthers == 2

(***************************************************************************)
(* Windows error codes the walker tests for.                               *)
(***************************************************************************)
ERROR_FILE_NOT_FOUND == 2
ERROR_ACCESS_DENIED == 5
ERROR_SHARING_VIOLATION == 32
ERROR_NO_MORE_FILES == 18
\* codes the walker has no branch for (ERROR_PATH_NOT_FOUND)
OtherCodes == {3}

\* hadesmem::Error with / without ErrorCodeWinLast attached
ErrorWithCode(c) == [hasCode |-> TRUE, code |-> c]
ErrorNoCode == [hasCode |-> FALSE, code |-> 0]
\* no exception in flight
NoExc == [hasCode |-> FALSE, code |-> -1]

(***************************************************************************)
(* 64-bit integers as four 16-bit limbs, least significant first, so that  *)
(* the 32-bit casts of DumpFile keep their width.                          *)
(***************************************************************************)
LimbBase == 2^16
LimbMax == LimbBase - 1
Limbs(a, b, c, d) == <<a, b, c, d>>
\* std::streampos(-1), what tellg returns on failure
MinusOne == Limbs(LimbMax, LimbMax, LimbMax, LimbMax)
Zero64 == Limbs(0, 0, 0, 0)
\* the test size < 0 for size <= 0
Negative(s) == s[4] >= LimbBase \div 2
\* size <= 0 on a signed 64-bit value
NonPositive(s) == s = Zero64 \/ s[4] >= LimbBase \div 2
\* the cast to a 64-bit type: nothing is cut off
ToUint64(s) == s
\* static_cast<std::uint32_t>(size), converted back for the comparison
ToUint32(s) == Limbs(s[1], s[2], 0, 0)
\* static_cast<std::size_t>(size)
ToSizeT(s) == s
\* static_cast<DWORD>(buf.size())
ToDWORD(s) == Limbs(s[1], s[2], 0, 0)
\* n < 2 for a positive value
LessThanTwo(s) == s[2] = 0 /\ s[3] = 0 /\ s[4] = 0 /\ s[1] < 2

(***************************************************************************)
(* The file system the walk runs over.                                     *)
(*   profile: size (limbs), head (the first min(size,2) bytes), nt (the    *)
(*            header parser accepts the buffer), deep (DumpPeFile returns  *)
(*            normally)                                                    *)
(*   entry:   name, kind, dir (directory id for "dir", target directory    *)
(*            for "dirlink"), file (profile for "file" and "filelink")     *)
(*   tree:    root (the path handed to DumpDir), dirs (id -> entries in    *)
(*            enumeration order, directory 1 is the root), budget (faults  *)
(*            the environment injects)                                     *)
(***************************************************************************)
Bytes == {"M", "Z", "X"}
Profile(size, head, nt, deep) == [size |-> size, head |-> head, nt |-> nt, deep |-> deep]
NoFile == Profile(Zero64, <<>>, FALSE, FALSE)
Sizes2 == {Limbs(2, 0, 0, 0), Limbs(3, 0, 0, 0), Limbs(LimbMax, LimbMax, 0, 0),
           Limbs(0, 0, 1, 0), Limbs(2, 0, 1, 0)}
Verdicts == {<<FALSE, TRUE>>, <<TRUE, FALSE>>, <<TRUE, TRUE>>}
Profiles ==
  {Profile(Zero64, <<>>, TRUE, TRUE)}
  \cup {Profile(Limbs(1, 0, 0, 0), <<b>>, TRUE, TRUE) : b \in Bytes}
  \cup {Profile(s, <<h[1], h[2]>>, v[1], v[2]) : s \in Sizes2, h \in Bytes \X Bytes, v \in Verdicts}

DotEntry(n) == [name |-> n, kind |-> "dot", dir |-> 0, file |-> NoFile]
FileEntry(n, p) == [name |-> n, kind |-> "file", dir |-> 0, file |-> p]
FileLink(n, p) == [name |-> n, kind |-> "filelink", dir |-> 0, file |-> p]
DirEntry(n, d) == [name |-> n, kind |-> "dir", dir |-> d, file |-> NoFile]
DirLink(n, d) == [name |-> n, kind |-> "dirlink", dir |-> d, file |-> NoFile]
Dots == <<DotEntry("."), DotEntry("..")>>

GoodPE == Profile(Limbs(LimbMax, LimbMax, 0, 0), <<"M", "Z">>, TRUE, TRUE)
BadHeader == Profile(Limbs(3, 0, 0, 0), <<"M", "Z">>, FALSE, TRUE)
Throwing == Profile(Limbs(2, 0, 0, 0), <<"M", "Z">>, TRUE, FALSE)
Text == Profile(Limbs(3, 0, 0, 0), <<"X", "Z">>, TRUE, TRUE)
HugePE == Profile(Limbs(2, 0, 1, 0), <<"M", "Z">>, TRUE, TRUE)

\* one file, every profile; the root of a drive lists no "." and ".."
SingleTrees ==
  {[root |-> <<"C:", "">>, dirs |-> <<(<<FileEntry("x.bin", p)>>)>>, budget |-> MaxFaults]
     : p \in Profiles}
\* a drive with nothing on it
EmptyTree == [root |-> <<"C:">>, dirs |-> <<(<<>>)>>, budget |-> MaxFaults]
\* a.exe and c\d.exe of the scenario, with a symlink to a file of 2^32 + 2 bytes,
\* and directory symlinks that point back to the root from two depths
MixedTree ==
  [root |-> <<"C:", "t", "">>,
   dirs |-> << Dots \o <<FileEntry("a.exe", GoodPE), DirLink("up", 1), DirEntry("c", 2),
                         FileLink("fl", HugePE)>>,
               Dots \o <<FileEntry("d.exe", BadHeader), DirEntry(".svn", 3)>>,
               Dots \o <<DirLink("loop", 1)>> >>,
   budget |-> MaxFaults]
\* directory symlinks that close cycles at two depths, two files, one fault
CycleTree ==
  [root |-> <<"C:", "u">>,
   dirs |-> << Dots \o <<FileEntry("a.exe", Throwing), DirLink("up", 1), DirEntry("c", 2)>>,
               Dots \o <<DirEntry(".svn", 3)>>,
               Dots \o <<DirLink("loop", 1), FileEntry("g.exe", Text)>> >>,
   budget |-> 1]
\* BurstFactor * c plain files in one directory
BurstTree(c) ==
  [root |-> <<"\\\\?\\", "D:", "burst">>,
   dirs |-> << Dots \o [i \in 1..(BurstFactor * c) |->
                          FileEntry("f" \o ToString(i), Text)] >>,
   budget |-> 0]
TreesFor(c) == {MixedTree, CycleTree, BurstTree(c)} \cup (IF c = 1 THEN SingleTrees \cup {EmptyTree} ELSE {})

(***************************************************************************)
(* Paths are sequences of components; a last component "" is a trailing    *)
(* separator and a first component "\\?\" the extended-length prefix.      *)
(***************************************************************************)
ExtendedPrefix == "\\\\?\\"
\* hadesmem::detail::MakeExtendedPath: prefix the path unless it starts with "\\"
MakeExtendedPath(p) == IF p # <<>> /\ p[1] = ExtendedPrefix THEN p ELSE <<ExtendedPrefix>> \o p
\* path_real: the path without its trailing separator
PathReal(p) == IF p[Len(p)] = "" THEN SubSeq(p, 1, Len(p) - 1) ELSE p
\* path_real + L"\\" + cur_file
Join(real, name) == Append(real, name)

\* hadesmem::detail::IsDirectory: the entry has FILE_ATTRIBUTE_DIRECTORY
IsDirectory(e) == e.kind \in {"dir", "dirlink"}
\* hadesmem::detail::IsSymlink: the entry has FILE_ATTRIBUTE_REPARSE_POINT
IsSymlink(e) == e.kind \in {"dirlink", "filelink"}
\* the test on the first character only: cur_file[0] == L'.'
IsDotNameFirstChar(name) == name \in {".", "..", ".svn"}
\* cur_file == L"." || cur_file == L".."
IsDotName(name) == name = "." \/ name = ".."

(***************************************************************************)
(* DumpFile, lines 29-124: the stages run on a file of profile f when the  *)
(* I/O calls named in F fail.  ops lists the calls made, buf is the size   *)
(* of the full buffer and dw the DWORD size handed to PeFile (Zero64 when  *)
(* the run does not get there).                                            *)
(***************************************************************************)
Stages == {"open", "tellg", "seek1", "read2", "seek2", "alloc", "read", "process"}
Ended(msg, ops, buf, dw, uncaught, failed) ==
  [msg |-> msg, ops |-> ops, buf |-> buf, dw |-> dw, uncaught |-> uncaught, failed |-> failed]
\* a rejection before the full buffer exists; failed names the call that failed
Reject(msg, ops, failed) == Ended(msg, ops, Zero64, Zero64, FALSE, failed)
\* the signature test with && for ||
NotMZAnd(head) == head[1] # "M" /\ head[2] # "Z"
\* mz_buf[0] != 'M' || mz_buf[1] != 'Z'
NotMZ(head) == head[1] # "M" \/ head[2] # "Z"
\* static_cast<std::uint32_t>(size) != size
TooLarge(size) == ToUint32(size) # size
DumpFileBody(f, F) ==
  LET size == IF "tellg" \in F THEN MinusOne ELSE f.size
      buf == ToSizeT(size)
      dw == ToDWORD(buf)
      o1 == <<"open">>
      o2 == o1 \o <<"tellg">>
      o3 == o2 \o <<"seekg">>
      o4 == o3 \o <<"read2">>
      o5 == o4 \o <<"seekg">>
      o6 == o5 \o <<"resize">>
      o7 == o6 \o <<"read">>
      o8 == o7 \o <<"Process">>
      o9 == o8 \o <<"PeFile", "NtHeaders">>
  IN  IF "open" \in F THEN Reject("Failed to open file.", o1, "open")
      ELSE IF NonPositive(size)
        THEN Reject("Empty or invalid file.", o2, IF "tellg" \in F THEN "tellg" ELSE "none")
      ELSE IF TooLarge(size) THEN Reject("File too large to be a valid PE.", o2, "none")
      ELSE IF "seek1" \in F
        THEN Reject("WARNING! Seeking to beginning of file failed (1).", o3, "seek1")
      ELSE IF "read2" \in F \/ LessThanTwo(size)
        THEN Reject("WARNING! Failed to read header signature.", o4,
                    IF LessThanTwo(size) THEN "none" ELSE "read2")
      ELSE IF NotMZ(f.head) THEN Reject("Not a PE file (Pass 1).", o4, "none")
      ELSE IF "seek2" \in F
        THEN Reject("WARNING! Seeking to beginning of file failed (2).", o5, "seek2")
      ELSE IF "alloc" \in F THEN Reject("WARNING! File too large.", o6, "alloc")
      ELSE IF "read" \in F
        THEN Ended("WARNING! Failed to read file data.", o7, buf, Zero64, FALSE, "read")
      ELSE IF "process" \in F THEN Ended("", o8, buf, Zero64, TRUE, "process")
      ELSE IF ~f.nt
        THEN Ended("Not a PE file or wrong architecture (Pass 2).", o9, buf, dw, FALSE, "none")
      ELSE IF ~f.deep THEN Ended("", o9 \o <<"DumpPeFile">>, buf, dw, TRUE, "none")
      ELSE Ended("dumped", o9 \o <<"DumpPeFile">>, buf, dw, FALSE, "none")

(***************************************************************************)
(* State.                                                                  *)
(*   fs, cap      the tree walked and the pool's capacity C                *)
(*   stack        the active DumpDir calls, the innermost last             *)
(*   walk         "running", "returned" or "raised" (top-level DumpDir)    *)
(*   exc          the hadesmem::Error in flight, NoExc when there is none  *)
(*   out          what the traversal thread wrote to the output stream     *)
(*   tasks        every task QueueTask admitted, in admission order, with *)
(*                the file its path named when it ran and how it ended     *)
(*   curFilePath  the value behind SetCurrentFilePath/GetCurrentFilePath   *)
(*   faults       I/O faults injected so far                               *)
(*   yielded, disp, ended  history: the entries enumeration produced, what *)
(*                was done with each, and how each DumpDir call ended      *)
(***************************************************************************)
VARIABLES fs, cap, stack, walk, exc, out, tasks, curFilePath, faults, yielded, disp, ended
vars == <<fs, cap, stack, walk, exc, out, tasks, curFilePath, faults, yielded, disp, ended>>

Frame(path, dir) ==
  [path |-> path, real |-> PathReal(path), dir |-> dir, idx |-> 0, pc |-> "enter", cur |-> <<>>]
Top == stack[Len(stack)]
SetTop(f) == [stack EXCEPT ![Len(stack)] = f]
Entries(f) == fs.dirs[f.dir]
\* the loop body working on an entry other than the one enumeration is at
EntryFromEnd(f) == Entries(f)[Len(Entries(f)) + 1 - f.idx]
Entry(f) == Entries(f)[f.idx]
\* the entry the call is at, as enumeration names it
Key(f) == Join(f.real, Entry(f).name)
\* cur_path
CurPath(f) == MakeExtendedPath(Join(f.real, Entry(f).name))
Msg(m, p) == [msg |-> m, path |-> p]
Say(m) == Msg(m, <<>>)
CanFault == faults < fs.budget
AllCodes == {ERROR_FILE_NOT_FOUND, ERROR_ACCESS_DENIED, ERROR_SHARING_VIOLATION,
             ERROR_NO_MORE_FILES} \cup OtherCodes

\* the file a path names, resolved from the root as the OS does
RECURSIVE Lookup(_, _, _)
Lookup(dirs, d, names) ==
  LET i == CHOOSE j \in 1..Len(dirs[d]) : dirs[d][j].name = names[1]
  IN  IF Len(names) = 1 THEN dirs[d][i] ELSE Lookup(dirs, dirs[d][i].dir, Tail(names))
EntryAt(path) ==
  LET p == MakeExtendedPath(path)
  IN  Lookup(fs.dirs, 1, SubSeq(p, Len(MakeExtendedPath(PathReal(fs.root))) + 1, Len(p)))
FileAt(path) == EntryAt(path).file
\* the directory a path names: the root, or what the entry leads to
DirAt(path) ==
  IF MakeExtendedPath(PathReal(path)) = MakeExtendedPath(PathReal(fs.root)) THEN 1
  ELSE EntryAt(PathReal(path)).dir

(***************************************************************************)
(* The thread pool: a task holds a slot from admission to completion.      *)
(***************************************************************************)
\* a pool that admits while C tasks run (the test is <= for <)
SlotFreeOffByOne == Cardinality({i \in 1..Len(tasks) : tasks[i].pc # "done"}) <= cap
\* a pool that keeps one slot in reserve
SlotFreeOneSpare == Cardinality({i \in 1..Len(tasks) : tasks[i].pc # "done"}) < cap - 1
InFlight == {i \in 1..Len(tasks) : tasks[i].pc # "done"}
SlotFree == Cardinality(InFlight) < cap
NoResult == Ended("", <<>>, Zero64, Zero64, FALSE, "none")
NewTask(path) == [path |-> path, pc |-> "queued", file |-> NoFile, res |-> NoResult, seen |-> <<>>]

(***************************************************************************)
(* DumpDir, lines 139-253.                                                 *)
(***************************************************************************)
Ok == [ok |-> TRUE, code |-> 0]
Fail(c) == [ok |-> FALSE, code |-> c]
\* FindFirstFileW on "path_real\*": nothing matches in a directory without entries
FindFirstFileW(d) ==
  LET natural == IF fs.dirs[d] = <<>> THEN Fail(ERROR_FILE_NOT_FOUND) ELSE Ok
  IN  {natural} \cup (IF CanFault THEN {Fail(c) : c \in AllCodes} ELSE {})
\* FindNextFileW: the next entry, or ERROR_NO_MORE_FILES after the last
FindNextFileW(f) ==
  LET natural == IF f.idx < Len(Entries(f)) THEN Ok ELSE Fail(ERROR_NO_MORE_FILES)
  IN  {natural} \cup (IF CanFault THEN {Fail(c) : c \in AllCodes \ {ERROR_NO_MORE_FILES}} ELSE {})
IsNatural(r, f) ==
  \/ r.ok
  \/ f.pc = "enter" /\ fs.dirs[f.dir] = <<>> /\ r.code = ERROR_FILE_NOT_FOUND
  \/ f.pc = "next" /\ f.idx >= Len(Entries(f)) /\ r.code = ERROR_NO_MORE_FILES

\* the start handler without its ERROR_ACCESS_DENIED branch
StartDispositionNoAccess(code) ==
  IF code = ERROR_FILE_NOT_FOUND THEN "Directory is empty." ELSE "throw"
\* the start handler without its ERROR_FILE_NOT_FOUND branch
StartDispositionNoEmpty(code) ==
  IF code = ERROR_ACCESS_DENIED THEN "Access denied to directory." ELSE "throw"
\* lines 157-172: what a failed FindFirstFileW leads to
StartDisposition(code) ==
  IF code = ERROR_FILE_NOT_FOUND THEN "Directory is empty."
  ELSE IF code = ERROR_ACCESS_DENIED THEN "Access denied to directory."
  ELSE "throw"
\* lines 245-252: what the end of the FindNextFileW loop leads to
NextDisposition(code) == IF code = ERROR_NO_MORE_FILES THEN "return" ELSE "throw"
\* the entry handler without its ERROR_SHARING_VIOLATION branch
EntryDispositionNoSharing(e) ==
  IF e.hasCode /\ e.code = ERROR_ACCESS_DENIED THEN "Access denied."
  ELSE IF e.hasCode /\ e.code = ERROR_FILE_NOT_FOUND THEN "File not found."
  ELSE "rethrow"
\* the entry handler with "continue" for the final "throw"
EntryDispositionSwallow(e) ==
  IF e.hasCode /\ e.code = ERROR_SHARING_VIOLATION THEN "Sharing violation."
  ELSE IF e.hasCode /\ e.code = ERROR_ACCESS_DENIED THEN "Access denied."
  ELSE "File not found."
\* lines 216-241: the handler of the per-entry try block
EntryDisposition(e) ==
  IF e.hasCode /\ e.code = ERROR_SHARING_VIOLATION THEN "Sharing violation."
  ELSE IF e.hasCode /\ e.code = ERROR_ACCESS_DENIED THEN "Access denied."
  ELSE IF e.hasCode /\ e.code = ERROR_FILE_NOT_FOUND THEN "File not found."
  ELSE "rethrow"
\* the walker without the IsSymlink test: every directory is recursed into
ClassifyFollow(e) == IF IsDirectory(e) THEN "recurse" ELSE "submit"
\* lines 191-214: the branch an entry takes
Classify(e) ==
  IF IsDirectory(e) THEN (IF IsSymlink(e) THEN "skip" ELSE "recurse") ELSE "submit"

\* how the innermost call ends: at FindFirstFileW ("start"), at the end of the
\* FindNextFileW loop ("continue") or in the handler of an entry ("entry")
End(origin, e, raised) ==
  [path |-> Top.path, real |-> Top.real, depth |-> Len(stack), origin |-> origin,
   key |-> IF origin = "entry" THEN Key(Top) ELSE <<>>, err |-> e, raised |-> raised]
\* the call returns: its caller goes on to FindNextFileW
Return(origin, code) ==
  /\ stack' = IF Len(stack) = 1 THEN <<>>
              ELSE [SubSeq(stack, 1, Len(stack) - 1) EXCEPT ![Len(stack) - 1].pc = "next"]
  /\ walk' = IF Len(stack) = 1 THEN "returned" ELSE walk
  /\ exc' = exc
  /\ ended' = ended \cup {End(origin, ErrorWithCode(code), FALSE)}
\* the call throws e: its caller's handler receives it
Throw(origin, e) ==
  /\ stack' = IF Len(stack) = 1 THEN <<>>
              ELSE [SubSeq(stack, 1, Len(stack) - 1) EXCEPT ![Len(stack) - 1].pc = "catch"]
  /\ walk' = IF Len(stack) = 1 THEN "raised" ELSE walk
  /\ exc' = e
  /\ ended' = ended \cup {End(origin, e, TRUE)}

Walking(pc) == walk = "running" /\ stack # <<>> /\ Top.pc = pc

\* lines 141-173 and the first pass of line 177
DumpDirEnter ==
  /\ Walking("enter")
  /\ \E r \in FindFirstFileW(Top.dir) :
       LET out1 == Append(out, Msg("Entering dir", Top.path))
           d == StartDisposition(r.code)
       IN  /\ faults' = IF IsNatural(r, Top) THEN faults ELSE faults + 1
           /\ IF r.ok
                THEN /\ stack' = SetTop([Top EXCEPT !.pc = "entry", !.idx = 1])
                     /\ yielded' = Append(yielded, Join(Top.real, Entries(Top)[1].name))
                     /\ out' = out1
                     /\ UNCHANGED <<walk, exc, ended>>
                ELSE /\ yielded' = yielded
                     /\ IF d = "throw"
                          THEN out' = out1 /\ Throw("start", ErrorWithCode(r.code))
                          ELSE out' = Append(out1, Say(d)) /\ Return("start", r.code)
  /\ UNCHANGED <<fs, cap, tasks, curFilePath, disp>>

\* lines 177-181
SkipDots ==
  /\ Walking("entry")
  /\ IsDotName(Entry(Top).name)
  /\ stack' = SetTop([Top EXCEPT !.pc = "next"])
  /\ disp' = disp \cup {<<Key(Top), "dropped">>}
  /\ UNCHANGED <<fs, cap, walk, exc, out, tasks, curFilePath, faults, yielded, ended>>

\* lines 183-191/193 when IsDirectory or IsSymlink throws
ClassifyFails ==
  /\ Walking("entry")
  /\ ~IsDotName(Entry(Top).name)
  /\ CanFault
  /\ \E e \in {ErrorWithCode(c) : c \in AllCodes} \cup {ErrorNoCode} :
       /\ exc' = e
       /\ stack' = SetTop([Top EXCEPT !.pc = "catch", !.cur = CurPath(Top)])
  /\ out' = Append(out, Msg("Current path", CurPath(Top)))
  /\ faults' = faults + 1
  /\ UNCHANGED <<fs, cap, walk, tasks, curFilePath, yielded, disp, ended>>

\* lines 183-197
SkipSymlink ==
  /\ Walking("entry")
  /\ ~IsDotName(Entry(Top).name)
  /\ Classify(Entry(Top)) = "skip"
  /\ stack' = SetTop([Top EXCEPT !.pc = "next", !.cur = CurPath(Top)])
  /\ out' = out \o <<Msg("Current path", CurPath(Top)), Say("Skipping symlink.")>>
  /\ disp' = disp \cup {<<Key(Top), "symlink">>}
  /\ UNCHANGED <<fs, cap, walk, exc, tasks, curFilePath, faults, yielded, ended>>

\* lines 183-200: the call DumpDir(cur_path, pool)
Recurse ==
  /\ Walking("entry")
  /\ ~IsDotName(Entry(Top).name)
  /\ Classify(Entry(Top)) = "recurse"
  /\ Len(stack) < MaxDepth
  /\ stack' = Append(SetTop([Top EXCEPT !.pc = "incall", !.cur = CurPath(Top)]),
                     Frame(CurPath(Top), Entry(Top).dir))
  /\ out' = Append(out, Msg("Current path", CurPath(Top)))
  /\ disp' = disp \cup {<<Key(Top), "recursed">>}
  /\ UNCHANGED <<fs, cap, walk, exc, tasks, curFilePath, faults, yielded, ended>>

\* lines 183-208: the task captures cur_path
BuildTask ==
  /\ Walking("entry")
  /\ ~IsDotName(Entry(Top).name)
  /\ Classify(Entry(Top)) = "submit"
  /\ stack' = SetTop([Top EXCEPT !.pc = "wait", !.cur = CurPath(Top)])
  /\ out' = Append(out, Msg("Current path", CurPath(Top)))
  /\ UNCHANGED <<fs, cap, walk, exc, tasks, curFilePath, faults, yielded, disp, ended>>

\* a WaitForSlot that returns whether or not a slot is free
WaitForSlotNoBlock ==
  /\ Walking("wait")
  /\ stack' = SetTop([Top EXCEPT !.pc = "queue"])
  /\ UNCHANGED <<fs, cap, walk, exc, out, tasks, curFilePath, faults, yielded, disp, ended>>
\* line 212: blocks until a slot is free, reserves nothing
WaitForSlot ==
  /\ Walking("wait")
  /\ SlotFree
  /\ stack' = SetTop([Top EXCEPT !.pc = "queue"])
  /\ UNCHANGED <<fs, cap, walk, exc, out, tasks, curFilePath, faults, yielded, disp, ended>>

\* a QueueTask that takes the task and still returns false when no slot is free
QueueTaskKeepsRefused ==
  /\ Walking("queue")
  /\ tasks' = Append(tasks, NewTask(Top.cur))
  /\ IF SlotFree
       THEN /\ stack' = SetTop([Top EXCEPT !.pc = "next"])
            /\ disp' = disp \cup {<<Key(Top), "submitted">>}
       ELSE /\ stack' = SetTop([Top EXCEPT !.pc = "wait"])
            /\ disp' = disp \cup {<<Key(Top), "refused">>}
  /\ UNCHANGED <<fs, cap, walk, exc, out, curFilePath, faults, yielded, ended>>
\* line 213: admits the task if a slot is free; the loop repeats on false
QueueTask ==
  /\ Walking("queue")
  /\ IF SlotFree
       THEN /\ tasks' = Append(tasks, NewTask(Top.cur))
            /\ stack' = SetTop([Top EXCEPT !.pc = "next"])
            /\ disp' = disp \cup {<<Key(Top), "submitted">>}
       ELSE /\ stack' = SetTop([Top EXCEPT !.pc = "wait"])
            /\ disp' = disp \cup {<<Key(Top), "refused">>}
            /\ tasks' = tasks
  /\ UNCHANGED <<fs, cap, walk, exc, out, curFilePath, faults, yielded, ended>>

\* lines 243-252
FindNextFile ==
  /\ Walking("next")
  /\ \E r \in FindNextFileW(Top) :
       /\ faults' = IF IsNatural(r, Top) THEN faults ELSE faults + 1
       /\ IF r.ok
            THEN /\ stack' = SetTop([Top EXCEPT !.pc = "entry", !.idx = Top.idx + 1])
                 /\ yielded' = Append(yielded, Join(Top.real, Entries(Top)[Top.idx + 1].name))
                 /\ UNCHANGED <<walk, exc, ended>>
            ELSE /\ yielded' = yielded
                 /\ IF NextDisposition(r.code) = "return"
                      THEN Return("continue", r.code)
                      ELSE Throw("continue", ErrorWithCode(r.code))
  /\ UNCHANGED <<fs, cap, out, tasks, curFilePath, disp>>

\* lines 216-242
CatchEntry ==
  /\ Walking("catch")
  /\ LET d == EntryDisposition(exc)
     IN  IF d = "rethrow"
           THEN /\ Throw("entry", exc)
                /\ disp' = disp \cup {<<Key(Top), "raised">>}
                /\ out' = out
           ELSE /\ stack' = SetTop([Top EXCEPT !.pc = "next"])
                /\ exc' = NoExc
                /\ out' = Append(out, Say(d))
                /\ disp' = disp \cup {<<Key(Top), "absorbed">>}
                /\ UNCHANGED <<walk, ended>>
  /\ UNCHANGED <<fs, cap, tasks, curFilePath, faults, yielded>>

(***************************************************************************)
(* DumpFile on a pool worker, lines 21-137.                                *)
(***************************************************************************)
FaultSets ==
  {{}} \cup (IF CanFault
               THEN {F \in SUBSET Stages : Cardinality(F) \in 1..MaxStageFaults}
               ELSE {})

\* lines 23-27: a worker starts the task, which sets the current file path
\* and then waits on its file I/O, holding its slot
TaskStart(i) ==
  /\ tasks[i].pc = "queued"
  /\ tasks' = [tasks EXCEPT ![i].pc = "running"]
  /\ curFilePath' = tasks[i].path
  /\ UNCHANGED <<fs, cap, stack, walk, exc, out, faults, yielded, disp, ended>>

\* lines 29-125: the stages; a run that throws nothing returns from DumpFile,
\* its slot still held
TaskRun(i) ==
  /\ tasks[i].pc = "running"
  /\ \E F \in FaultSets :
       LET f == FileAt(tasks[i].path)
           r == DumpFileBody(f, F)
       IN  /\ tasks' = [tasks EXCEPT ![i].res = r, ![i].file = f,
                                     ![i].pc = IF r.uncaught THEN "catch" ELSE "returned"]
           /\ faults' = IF F = {} THEN faults ELSE faults + 1
  /\ UNCHANGED <<fs, cap, stack, walk, exc, out, curFilePath, yielded, disp, ended>>

\* a DumpFile whose handler lets the error leave the task: the worker never
\* returns to the pool
TaskCatchEscapes(i) ==
  /\ tasks[i].pc = "catch"
  /\ tasks' = [tasks EXCEPT ![i].pc = "escaped", ![i].seen = curFilePath]
  /\ UNCHANGED <<fs, cap, stack, walk, exc, out, curFilePath, faults, yielded, disp, ended>>
\* lines 126-137: the catch-all handler reads the current file path and
\* DumpFile returns, its slot still held
TaskCatch(i) ==
  /\ tasks[i].pc = "catch"
  /\ tasks' = [tasks EXCEPT ![i].pc = "returned", ![i].seen = curFilePath,
                            ![i].res.msg = "Error!"]
  /\ UNCHANGED <<fs, cap, stack, walk, exc, out, curFilePath, faults, yielded, disp, ended>>

\* the pool's worker, back from the task, frees the slot
TaskRelease(i) ==
  /\ tasks[i].pc = "returned"
  /\ tasks' = [tasks EXCEPT ![i].pc = "done"]
  /\ UNCHANGED <<fs, cap, stack, walk, exc, out, curFilePath, faults, yielded, disp, ended>>

Init ==
  /\ cap \in 1..MaxCap
  /\ fs \in TreesFor(cap)
  /\ stack = <<Frame(fs.root, 1)>>
  /\ walk = "running"
  /\ exc = NoExc
  /\ out = <<>>
  /\ tasks = <<>>
  /\ curFilePath = <<>>
  /\ faults = 0
  /\ yielded = <<>>
  /\ disp = {}
  /\ ended = {}

WalkerStep ==
  \/ DumpDirEnter
  \/ SkipDots
  \/ ClassifyFails
  \/ SkipSymlink
  \/ Recurse
  \/ BuildTask
  \/ WaitForSlot
  \/ QueueTask
  \/ FindNextFile
  \/ CatchEntry
TaskStep == \E i \in 1..Len(tasks) : TaskStart(i) \/ TaskRun(i) \/ TaskCatch(i) \/ TaskRelease(i)
Next == WalkerStep \/ TaskStep

Spec == Init /\ [][Next]_vars
\* the traversal thread keeps running, and the pool's workers run every admitted task
\* on the tree whose directory symlinks close cycles
FairInit == Init /\ fs = CycleTree
FairSpec == FairInit /\ [][Next]_vars /\ WF_vars(WalkerStep) /\ WF_vars(TaskStep)

TypeOK ==
  /\ cap \in 1..MaxCap
  /\ walk \in {"running", "returned", "raised"}
  /\ faults \in 0..fs.budget
  /\ Len(stack) <= MaxDepth

(***************************************************************************)
(* The pool shared with other producers, which the retry protocol allows   *)
(* for: a slot WaitForSlot saw free may be taken before QueueTask runs.    *)
(***************************************************************************)
OtherTask == [path |-> <<>>, pc |-> "other", file |-> NoFile, res |-> NoResult, seen |-> <<>>]
Others == {i \in 1..Len(tasks) : tasks[i].path = <<>>}
\* another producer's QueueTask is admitted
OtherProducer ==
  /\ SlotFree
  /\ Cardinality(Others) < MaxOthers
  /\ tasks' = Append(tasks, OtherTask)
  /\ UNCHANGED <<fs, cap, stack, walk, exc, out, curFilePath, faults, yielded, disp, ended>>
\* another producer's task completes
OtherTaskDone(i) ==
  /\ tasks[i].pc = "other"
  /\ tasks' = [tasks EXCEPT ![i].pc = "done"]
  /\ UNCHANGED <<fs, cap, stack, walk, exc, out, curFilePath, faults, yielded, disp, ended>>
RaceInit == Init /\ fs = CycleTree
RaceNext == Next \/ OtherProducer \/ \E i \in 1..Len(tasks) : OtherTaskDone(i)
RaceSpec == RaceInit /\ [][RaceNext]_vars

(***************************************************************************)
(* Properties.                                                             *)
(***************************************************************************)
Range(q) == {q[i] : i \in 1..Len(q)}
\* the task has called SetCurrentFilePath
Started(t) == t.pc # "queued"
\* the stages of the task have ended: its result is known
Ran(t) == t.pc \in {"catch", "returned", "done"}
\* the pool has the slot back
Done(t) == t.pc = "done"
\* DumpFile has returned, by a return statement or from its handler
Returned(t) == t.pc \in {"returned", "done"}
Extended(k) == MakeExtendedPath(k)
Entered(p) == \E j \in 1..Len(out) : out[j] = Msg("Entering dir", p)
Called(p) == Entered(p) \/ \E j \in 1..Len(stack) : stack[j].path = p
Submitted(p) == \E i \in 1..Len(tasks) : tasks[i].path = p
\* "Current path" of p directly followed by the report m
Reported(p, m) ==
  \E j \in 1..(Len(out) - 1) : out[j] = Msg("Current path", p) /\ out[j + 1] = Say(m)
Max32 == Limbs(LimbMax, LimbMax, 0, 0)
\* 1 <= s <= 2^32 - 1
FitsDWORD(s) == s[3] = 0 /\ s[4] = 0 /\ s # Zero64
\* s > 2^32 - 1, for a file size
Exceeds32(s) == s[3] # 0 \/ s[4] # 0

\* C1: the number of DumpFile tasks holding a pool slot is at most C in every
\* reachable state, for every capacity and tree, the burst of BurstFactor * C
\* plain files in one directory included.
C1_SlotsBounded == Cardinality(InFlight) <= cap
C1_Witness ==
  /\ fs = BurstTree(cap)
  /\ cap = MaxCap
  /\ Len(tasks) = BurstFactor * cap
  /\ Cardinality(InFlight) = cap

\* C2 as stated: every symlink entry, to a file or to a directory, is reported
\* as skipped, DumpDir is never called on it and no DumpFile task exists for it.
C2_Original ==
  \A k \in Range(yielded) :
    IsSymlink(EntryAt(k)) =>
      /\ ~Called(Extended(k))
      /\ ~Submitted(Extended(k))
      /\ (\E tag \in {"symlink", "submitted"} : <<k, tag>> \in disp)
           => Reported(Extended(k), "Skipping symlink.")
\* what the code does instead: DumpDir is never called on a symlink to a directory and no task
\* is submitted for it, and it is reported "Skipping symlink." unless classifying
\* it raised an error; a symlink to a file is submitted to the pool as a
\* DumpFile task, like a plain file, and not reported as skipped.
C2_DirSymlinksSkipped ==
  \A k \in Range(yielded) :
    LET e == EntryAt(k)
        finished == \E tag \in {"symlink", "absorbed", "raised", "submitted"} : <<k, tag>> \in disp
        failed == <<k, "absorbed">> \in disp \/ <<k, "raised">> \in disp
    IN  /\ (IsSymlink(e) /\ IsDirectory(e)) =>
             /\ ~Called(Extended(k))
             /\ ~Submitted(Extended(k))
             /\ finished => (Reported(Extended(k), "Skipping symlink.") \/ failed)
             /\ Reported(Extended(k), "Skipping symlink.") => ~failed
        /\ (IsSymlink(e) /\ ~IsDirectory(e)) =>
             /\ ~Reported(Extended(k), "Skipping symlink.")
             /\ (finished /\ ~failed) => Submitted(Extended(k))
C2_Witness ==
  /\ walk = "returned"
  /\ \E k \in Range(yielded) :
       /\ EntryAt(k).kind = "dirlink"
       /\ Reported(Extended(k), "Skipping symlink.")
  /\ \E i \in 1..Len(tasks) :
       /\ EntryAt(tasks[i].path).kind = "filelink"
       /\ Done(tasks[i])

\* C3: no directory is entered more than once and the top-level DumpDir call
\* eventually returns or raises, on a tree whose directory symlinks point to
\* ancestors, when the traversal thread and the admitted tasks keep running.
EnteredOnce ==
  \A i, j \in 1..Len(out) :
    (i < j /\ out[i].msg = "Entering dir" /\ out[j].msg = "Entering dir")
      => DirAt(out[i].path) # DirAt(out[j].path)
C3_CycleTerminates == [](EnteredOnce) /\ <>(walk # "running")
C3_Witness ==
  /\ walk = "returned"
  /\ fs = CycleTree
  /\ Cardinality({j \in 1..Len(out) : out[j] = Say("Skipping symlink.")}) = 2
  /\ Cardinality({j \in 1..Len(out) : out[j].msg = "Entering dir"}) = Len(fs.dirs)

\* C4 as stated: every file whose first two bytes are not 'M','Z' ends with
\* "Not a PE file (Pass 1)." and without the full buffer or the full read.
HeadNotMZ(f) == f.head # <<"M", "Z">>
NoFullRead(t) ==
  /\ "resize" \notin Range(t.res.ops)
  /\ "read" \notin Range(t.res.ops)
  /\ t.res.buf = Zero64
C4_Original ==
  \A i \in 1..Len(tasks) :
    (Ran(tasks[i]) /\ HeadNotMZ(tasks[i].file))
      => tasks[i].res.msg = "Not a PE file (Pass 1)." /\ NoFullRead(tasks[i])
\* C4 amended: a file whose first two bytes are not 'M','Z' is never given the
\* full buffer or the full-size read; it ends with "Not a PE file (Pass 1)."
\* exactly when it opens, its size is from 2 to 2^32 - 1, and the first seek and
\* the 2-byte read succeed; otherwise it ends with the rejection of the earlier
\* stage that failed.
ReachesCompare(t) ==
  /\ t.res.failed \notin {"open", "tellg", "seek1", "read2"}
  /\ FitsDWORD(t.file.size)
  /\ ~LessThanTwo(t.file.size)
C4_NoMagicNoFullRead ==
  \A i \in 1..Len(tasks) :
    (Ran(tasks[i]) /\ HeadNotMZ(tasks[i].file))
      => /\ NoFullRead(tasks[i])
         /\ (ReachesCompare(tasks[i]) <=> tasks[i].res.msg = "Not a PE file (Pass 1).")
         /\ ~ReachesCompare(tasks[i]) =>
              tasks[i].res.msg \in {"Failed to open file.", "Empty or invalid file.",
                                    "File too large to be a valid PE.",
                                    "WARNING! Seeking to beginning of file failed (1).",
                                    "WARNING! Failed to read header signature."}
C4_Witness ==
  \E i \in 1..Len(tasks) :
    /\ Done(tasks[i])
    /\ tasks[i].file.head = <<"M", "X">>
    /\ tasks[i].res.msg = "Not a PE file (Pass 1)."
    /\ tasks[i].res.ops = <<"open", "tellg", "seekg", "read2">>

\* C5 as stated: every file of more than 2^32 - 1 bytes is rejected as too
\* large, and a buffer that reaches a parser has the file's size, which lies
\* in 1..2^32 - 1 and equals the DWORD size passed on.
ParserSizesAgree(t) ==
  "NtHeaders" \in Range(t.res.ops) =>
    /\ t.res.buf = t.file.size
    /\ FitsDWORD(t.res.buf)
    /\ t.res.dw = t.res.buf
C5_Original ==
  \A i \in 1..Len(tasks) :
    Ran(tasks[i]) =>
      /\ Exceeds32(tasks[i].file.size)
           => tasks[i].res.msg = "File too large to be a valid PE."
      /\ ParserSizesAgree(tasks[i])
\* C5 amended: every file of more than 2^32 - 1 bytes that opens and whose
\* size tellg reports is rejected as too large, and no such file gets past the
\* size stage whatever fails; a buffer that reaches a parser has the file's
\* size, which lies in 1..2^32 - 1 and equals the DWORD size passed on.
C5_OversizeRejected ==
  \A i \in 1..Len(tasks) :
    Ran(tasks[i]) =>
      /\ Exceeds32(tasks[i].file.size) =>
           /\ tasks[i].res.failed \notin {"open", "tellg"}
                => tasks[i].res.msg = "File too large to be a valid PE."
           /\ tasks[i].res.msg \in {"Failed to open file.", "Empty or invalid file.",
                                    "File too large to be a valid PE."}
           /\ Len(tasks[i].res.ops) <= 2
      /\ ParserSizesAgree(tasks[i])
C5_Witness ==
  /\ \E i \in 1..Len(tasks) :
       /\ Done(tasks[i])
       /\ tasks[i].file.size = Limbs(2, 0, 1, 0)
       /\ tasks[i].res.msg = "File too large to be a valid PE."
  /\ \E i \in 1..Len(tasks) :
       /\ Done(tasks[i])
       /\ tasks[i].res.buf = Max32
       /\ tasks[i].res.dw = Max32
       /\ tasks[i].res.msg = "dumped"

Parent(k) == SubSeq(k, 1, Len(k) - 1)
Name(k) == k[Len(k)]
SkipCodes == {ERROR_FILE_NOT_FOUND, ERROR_ACCESS_DENIED, ERROR_SHARING_VIOLATION}
FourCodes == SkipCodes \cup {ERROR_NO_MORE_FILES}
\* the walker is still inside the loop body of this entry
InProgress(k) ==
  \E j \in 1..Len(stack) :
    /\ stack[j].idx >= 1
    /\ Key(stack[j]) = k
    /\ stack[j].pc \in {"entry", "incall", "wait", "queue", "catch"}
Announced(k) == \E j \in 1..Len(out) : out[j] = Msg("Current path", Extended(k))
ReportedSkipped(k) == <<k, "symlink">> \in disp \/ <<k, "absorbed">> \in disp
RaisedAt(k) == \E c \in ended : c.raised /\ c.origin = "entry" /\ c.key = k

\* C6 as stated: every entry enumeration yields is recursed into, submitted to
\* the pool or explicitly reported as skipped.
C6_Original ==
  \A k \in Range(yielded) :
    ~InProgress(k) => (Entered(Extended(k)) \/ Submitted(Extended(k)) \/ ReportedSkipped(k))
\* C6 amended: every entry other than "." and ".." that enumeration yields is
\* announced and then recursed into, submitted to the pool, reported as skipped,
\* or its error is rethrown to the caller of DumpDir; "." and ".." are dropped
\* without any report.
C6_EveryEntryDisposed ==
  \A k \in Range(yielded) :
    ~InProgress(k) =>
      IF Name(k) \in {".", ".."}
        THEN /\ ~Announced(k)
             /\ ~Entered(Extended(k)) /\ ~Submitted(Extended(k)) /\ ~ReportedSkipped(k)
        ELSE /\ \/ <<k, "submitted">> \in disp /\ Submitted(Extended(k))
                \/ ReportedSkipped(k)
                \/ RaisedAt(k)
                \/ Entered(Extended(k))
             /\ Announced(k)
C6_Witness ==
  /\ walk = "returned"
  /\ fs = MixedTree
  /\ faults = 0
  /\ Len(yielded) = Len(fs.dirs[1]) + Len(fs.dirs[2]) + Len(fs.dirs[3])

\* C7: an entry error that carries 'file not found', 'access denied' or
\* 'sharing violation' is reported and the loop goes on to FindNextFileW in the
\* same call: the call does not raise because of that entry, and when it
\* returns every entry of the directory has been yielded and disposed of.
SkipReport(code) ==
  IF code = ERROR_SHARING_VIOLATION THEN "Sharing violation."
  ELSE IF code = ERROR_ACCESS_DENIED THEN "Access denied."
  ELSE "File not found."
AbsorbStep ==
  (Walking("catch") /\ exc.hasCode /\ exc.code \in SkipCodes /\ stack' # stack)
    => /\ stack' = SetTop([Top EXCEPT !.pc = "next"])
       /\ walk' = "running"
       /\ exc' = NoExc
       /\ ended' = ended
       /\ out' = Append(out, Say(SkipReport(exc.code)))
SiblingsStillWalked ==
  \A d \in disp :
    d[2] = "absorbed" =>
      /\ ~RaisedAt(d[1])
      /\ \A c \in ended :
           (c.real = Parent(d[1]) /\ ~c.raised) =>
             \A i \in 1..Len(fs.dirs[DirAt(c.path)]) :
               LET k == Join(c.real, fs.dirs[DirAt(c.path)][i].name)
               IN  /\ k \in Range(yielded)
                   /\ \E tag \in {"dropped", "symlink", "absorbed", "recursed", "submitted"} :
                        <<k, tag>> \in disp
C7_SkipContinues == [](SiblingsStillWalked) /\ [][AbsorbStep]_vars
C7_Witness ==
  /\ walk = "returned"
  /\ \E i, j \in 1..Len(yielded) :
       /\ i < j
       /\ Parent(yielded[i]) = Parent(yielded[j])
       /\ <<yielded[i], "absorbed">> \in disp
       /\ <<yielded[i], "recursed">> \in disp
       /\ Submitted(Extended(yielded[j]))

\* C8 as stated: no error that leaves a DumpDir call carries 'file not found',
\* 'access denied', 'sharing violation' or 'no more entries'.
C8_Original == \A c \in ended : c.raised => ~(c.err.hasCode /\ c.err.code \in FourCodes)
\* what the code does instead: each site absorbs its own codes only.  An error leaves a DumpDir
\* call from enumeration start with any code but 'file not found' and 'access
\* denied', from enumeration continue with any code but 'no more entries', and
\* from an entry unless it carries 'file not found', 'access denied' or
\* 'sharing violation'; a call returns normally from enumeration start only on
\* 'file not found' or 'access denied' and from enumeration continue only on
\* 'no more entries'.
C8_EscapesBySite ==
  \A c \in ended :
    /\ c.origin = "start" =>
         /\ c.err.hasCode
         /\ c.raised <=> c.err.code \notin {ERROR_FILE_NOT_FOUND, ERROR_ACCESS_DENIED}
    /\ c.origin = "continue" =>
         /\ c.err.hasCode
         /\ c.raised <=> c.err.code # ERROR_NO_MORE_FILES
    /\ c.origin = "entry" =>
         /\ c.raised
         /\ ~(c.err.hasCode /\ c.err.code \in SkipCodes)
C8_Witness ==
  /\ \E c \in ended :
       c.raised /\ c.origin = "start" /\ c.err = ErrorWithCode(ERROR_SHARING_VIOLATION)
  /\ walk = "returned"

\* C9: an error with an unrecognized code or with no code leaves every DumpDir
\* call of the call chain unchanged, nothing is enumerated, announced or
\* submitted once it is in flight, and every task admitted before it completes.
Unrecognized(e) == e # NoExc /\ (~e.hasCode \/ e.code \notin FourCodes)
AllTasksDone == \A i \in 1..Len(tasks) : Done(tasks[i])
FatalStep ==
  Unrecognized(exc) =>
    /\ exc' = exc
    /\ yielded' = yielded
    /\ out' = out
    /\ Len(tasks') = Len(tasks)
    /\ stack' # stack =>
         /\ stack # <<>>
         /\ Len(stack') = Len(stack) - 1
         /\ ended' = ended \cup {End("entry", exc, TRUE)}
FatalChain ==
  (walk = "raised" /\ Unrecognized(exc)) =>
    \E n \in 1..MaxDepth : {c.depth : c \in {x \in ended : x.raised /\ x.err = exc}} = 1..n
C9_FatalPropagates ==
  /\ [](FatalChain)
  /\ [][FatalStep]_vars
  /\ (Unrecognized(exc) ~> (walk = "raised" /\ stack = <<>> /\ AllTasksDone))
C9_Witness ==
  /\ walk = "raised"
  /\ Unrecognized(exc)
  /\ Cardinality({c \in ended : c.raised /\ c.err = exc}) = 3
  /\ Len(tasks) >= 1
  /\ AllTasksDone

\* C10: a DumpDir call whose FindFirstFileW finds no entry returns without an
\* error after exactly one "Directory is empty." report, and nothing below it
\* is enumerated, entered or submitted.
EmptyCalls == {c \in ended : c.origin = "start" /\ c.err = ErrorWithCode(ERROR_FILE_NOT_FOUND)}
C10_EmptyDirectory ==
  /\ \A c \in EmptyCalls :
       /\ ~c.raised
       /\ \E j \in 1..(Len(out) - 1) :
            /\ out[j] = Msg("Entering dir", c.path)
            /\ out[j + 1] = Say("Directory is empty.")
            /\ j + 2 <= Len(out) => out[j + 2] # Say("Directory is empty.")
       /\ \A k \in Range(yielded) : Parent(k) # c.real
       /\ \A j \in 1..Len(out) :
            out[j].msg \in {"Entering dir", "Current path"}
              => Extended(Parent(PathReal(out[j].path))) # Extended(c.real)
       /\ \A i \in 1..Len(tasks) : Extended(Parent(tasks[i].path)) # Extended(c.real)
  /\ Cardinality({j \in 1..Len(out) : out[j] = Say("Directory is empty.")})
       = Cardinality(EmptyCalls)
  /\ \A c \in ended :
       (fs.dirs[DirAt(c.path)] = <<>> /\ ~c.raised /\ c.err.code # ERROR_ACCESS_DENIED)
         => c \in EmptyCalls
C10_Witness ==
  /\ fs = EmptyTree
  /\ walk = "returned"
  /\ out = <<Msg("Entering dir", fs.root), Say("Directory is empty.")>>

\* the DumpDir calls whose FindFirstFileW failed with ERROR_ACCESS_DENIED
DeniedCalls == {c \in ended : c.origin = "start" /\ c.err = ErrorWithCode(ERROR_ACCESS_DENIED)}
\* the step in which FindFirstFileW fails with ERROR_ACCESS_DENIED: the call
\* writes its report and returns, nothing is in flight, and its caller is at
\* FindNextFileW (the walk has returned when the call was the top-level one)
DeniedStep ==
  (\E c \in ended' \ ended : c.origin = "start" /\ c.err = ErrorWithCode(ERROR_ACCESS_DENIED))
    => /\ Walking("enter")
       /\ out' = out \o <<Msg("Entering dir", Top.path), Say("Access denied to directory.")>>
       /\ exc' = NoExc
       /\ IF Len(stack) = 1
            THEN walk' = "returned" /\ stack' = <<>>
            ELSE /\ walk' = "running"
                 /\ stack' = [SubSeq(stack, 1, Len(stack) - 1) EXCEPT ![Len(stack) - 1].pc = "next"]
\* no denied call raised, none made its entry an error of the parent, and a
\* parent that returned has yielded and disposed of every entry of its directory
DeniedReturns ==
  \A c \in DeniedCalls :
    /\ ~c.raised
    /\ \E j \in 1..(Len(out) - 1) :
         out[j] = Msg("Entering dir", c.path) /\ out[j + 1] = Say("Access denied to directory.")
    /\ \A k \in Range(yielded) :
         Extended(k) = c.path =>
           /\ ~RaisedAt(k)
           /\ <<k, "absorbed">> \notin disp
           /\ \A p \in ended :
                (p.real = Parent(k) /\ ~p.raised) =>
                  \A i \in 1..Len(fs.dirs[DirAt(p.path)]) :
                    LET s == Join(p.real, fs.dirs[DirAt(p.path)][i].name)
                    IN  /\ s \in Range(yielded)
                        /\ \E tag \in {"dropped", "symlink", "absorbed", "recursed", "submitted"} :
                             <<s, tag>> \in disp
\* C11: when FindFirstFileW fails with 'access denied' the DumpDir call reports
\* "Access denied to directory." and returns without raising, at the root and
\* at every depth, and its caller goes on to FindNextFileW: the remaining
\* siblings are still yielded and disposed of.
C11_AccessDeniedReturns == [](DeniedReturns) /\ [][DeniedStep]_vars
C11_Witness ==
  /\ walk = "returned"
  /\ \E c \in DeniedCalls :
       /\ c.depth = 2
       /\ \E i, j \in 1..Len(yielded) :
            /\ i < j
            /\ Extended(yielded[i]) = c.path
            /\ Parent(yielded[i]) = Parent(yielded[j])
            /\ Submitted(Extended(yielded[j]))

\* the walks the pool's liveness is checked on: one file of every profile, the
\* tree with two files in flight together, and the burst of BurstFactor * C files
PoolFairInit == Init /\ fs \in SingleTrees \cup {CycleTree, BurstTree(cap)}
\* the traversal thread keeps running and the pool's workers run every admitted task
PoolFairSpec == PoolFairInit /\ [][Next]_vars /\ WF_vars(WalkerStep) /\ WF_vars(TaskStep)

\* a step of a task moves that task alone, towards "done", and leaves the
\* traversal thread and the error in flight there untouched
TaskIsolated ==
  (Len(tasks') = Len(tasks) /\ tasks' # tasks) =>
    /\ \E i \in 1..Len(tasks) :
         /\ <<tasks[i].pc, tasks'[i].pc>> \in {<<"queued", "running">>, <<"running", "returned">>,
                                               <<"running", "catch">>, <<"catch", "returned">>,
                                               <<"returned", "done">>}
         /\ \A j \in 1..Len(tasks) : j # i => tasks'[j] = tasks[j]
    /\ UNCHANGED <<stack, walk, exc, out, ended>>
\* every task is waiting to run, in its stages, in its handler, or has returned
\* to the pool;
\* one that has returned ended with a report of DumpFile or in its handler
TaskReturned ==
  \A i \in 1..Len(tasks) :
    /\ tasks[i].pc \in {"queued", "running", "catch", "returned", "done"}
    /\ Returned(tasks[i]) =>
         /\ tasks[i].res.msg # ""
         /\ tasks[i].res.uncaught <=> tasks[i].res.msg = "Error!"
\* C12: a DumpFile task returns to the pool whatever its outcome: its steps
\* change no other task and raise nothing on the traversal thread, and under
\* fairness no slot stays occupied for ever.
C12_TaskAlwaysReturns == [](TaskReturned) /\ [][TaskIsolated]_vars /\ []<>(InFlight = {})
C12_Witness ==
  /\ cap = MaxCap
  /\ Len(tasks) = 2
  /\ tasks[1].res.msg = "Error!" /\ Done(tasks[1])
  /\ tasks[2].pc = "running"
  /\ tasks[1].res.ops[Len(tasks[1].res.ops)] = "DumpPeFile"

(***************************************************************************)
(* DumpFile alone: one file of every profile, with any set of its I/O      *)
(* calls failing; the task records the set as F.                           *)
(***************************************************************************)
SniffInit ==
  /\ cap = 1
  /\ fs \in SingleTrees
  /\ stack = <<>>
  /\ walk = "returned"
  /\ exc = NoExc
  /\ out = <<>>
  /\ tasks = <<NewTask(MakeExtendedPath(Join(PathReal(fs.root), fs.dirs[1][1].name)))>>
  /\ curFilePath = <<>>
  /\ faults = 0
  /\ yielded = <<>>
  /\ disp = {}
  /\ ended = {}
\* lines 29-125 for any set F of failing calls
Sniff ==
  /\ tasks[1].pc = "running"
  /\ \E F \in SUBSET Stages :
       LET f == FileAt(tasks[1].path)
           r == DumpFileBody(f, F)
       IN  tasks' = <<[path |-> tasks[1].path, pc |-> IF r.uncaught THEN "catch" ELSE "returned",
                       file |-> f, res |-> r, seen |-> <<>>, F |-> F]>>
  /\ UNCHANGED <<fs, cap, stack, walk, exc, out, curFilePath, faults, yielded, disp, ended>>
SniffNext == TaskStart(1) \/ Sniff \/ TaskCatch(1) \/ TaskRelease(1)
SniffSpec == SniffInit /\ [][SniffNext]_vars

\* the calls of a run that gets to the deep parser, in the order of the source
FullRun == <<"open", "tellg", "seekg", "read2", "seekg", "resize", "read", "Process",
             "PeFile", "NtHeaders", "DumpPeFile">>
Rejections ==
  {"Failed to open file.", "Empty or invalid file.", "File too large to be a valid PE.",
   "WARNING! Seeking to beginning of file failed (1).",
   "WARNING! Failed to read header signature.", "Not a PE file (Pass 1).",
   "WARNING! Seeking to beginning of file failed (2).", "WARNING! File too large.",
   "WARNING! Failed to read file data.", "Not a PE file or wrong architecture (Pass 2)."}
\* C13: DumpPeFile is called only by a run in which no call failed, the size
\* is in 1..2^32 - 1, the two bytes peeked are 'M','Z', the buffer was
\* allocated and read in full and the header parser accepted it, every one of
\* these steps made before it in the same run; a run that ends with a
\* rejection never calls it.
C13_DeepParserOnlyAfterSniff ==
  \A i \in 1..Len(tasks) :
    Ran(tasks[i]) =>
      LET t == tasks[i]
      IN  /\ "DumpPeFile" \in Range(t.res.ops) =>
               /\ t.F = {}
               /\ FitsDWORD(t.file.size)
               /\ t.file.head = <<"M", "Z">>
               /\ t.file.nt
               /\ t.res.ops = FullRun
               /\ t.res.buf = t.file.size
               /\ t.res.msg \notin Rejections
          /\ t.res.msg \in Rejections => "DumpPeFile" \notin Range(t.res.ops)
          /\ (t.F # {} \/ ~FitsDWORD(t.file.size) \/ t.file.head # <<"M", "Z">> \/ ~t.file.nt)
               => "DumpPeFile" \notin Range(t.res.ops)
C13_Witness ==
  /\ Len(tasks) = 1
  /\ Done(tasks[1])
  /\ tasks[1].res.ops = FullRun
  /\ tasks[1].res.msg = "dumped"
  /\ tasks[1].file.size = Max32

\* the stages of DumpFile up to the header parse, in the order of the source
StageOrder == <<"open", "positive", "fits", "seek1", "read2", "MZ", "seek2", "alloc", "read",
                "process", "parse">>
\* whether a stage fails for file f when the calls in F fail, taken by itself
StageFails(s, f, F) ==
  LET size == IF "tellg" \in F THEN MinusOne ELSE f.size
  IN  CASE s = "open" -> "open" \in F
        [] s = "positive" -> NonPositive(size)
        [] s = "fits" -> Exceeds32(size)
        [] s = "seek1" -> "seek1" \in F
        [] s = "read2" -> "read2" \in F \/ LessThanTwo(size)
        [] s = "MZ" -> f.head # <<"M", "Z">>
        [] s = "seek2" -> "seek2" \in F
        [] s = "alloc" -> "alloc" \in F
        [] s = "read" -> "read" \in F
        [] s = "process" -> "process" \in F
        [] s = "parse" -> ~f.nt
\* the report of each stage and the number of calls made when it is reached
StageReport(s) ==
  CASE s = "open" -> <<"Failed to open file.", 1>>
    [] s = "positive" -> <<"Empty or invalid file.", 2>>
    [] s = "fits" -> <<"File too large to be a valid PE.", 2>>
    [] s = "seek1" -> <<"WARNING! Seeking to beginning of file failed (1).", 3>>
    [] s = "read2" -> <<"WARNING! Failed to read header signature.", 4>>
    [] s = "MZ" -> <<"Not a PE file (Pass 1).", 4>>
    [] s = "seek2" -> <<"WARNING! Seeking to beginning of file failed (2).", 5>>
    [] s = "alloc" -> <<"WARNING! File too large.", 6>>
    [] s = "read" -> <<"WARNING! Failed to read file data.", 7>>
    [] s = "process" -> <<"Error!", 8>>
    [] s = "parse" -> <<"Not a PE file or wrong architecture (Pass 2).", 10>>
FailingStages(f, F) == {n \in 1..Len(StageOrder) : StageFails(StageOrder[n], f, F)}
FirstFailure(f, F) == CHOOSE n \in FailingStages(f, F) : \A m \in FailingStages(f, F) : n <= m
\* C16: the run ends with the report of the first stage, in the order open,
\* size > 0, size fits in 32 bits, seek, read 2 bytes, 'MZ' compare, seek,
\* allocate, full read, header parse, that fails, having made the calls up to
\* that stage and none after it; a file of size 0 ends as empty or unreadable
\* with no seek and no read.
C16_StagesShortCircuit ==
  \A i \in 1..Len(tasks) :
    Returned(tasks[i]) =>
      LET t == tasks[i]
          fails == FailingStages(t.file, t.F)
          first == StageReport(StageOrder[FirstFailure(t.file, t.F)])
      IN  /\ fails # {} =>
               /\ t.res.msg = first[1]
               /\ t.res.ops = SubSeq(FullRun, 1, first[2])
          /\ fails = {} => t.res.ops = FullRun
          /\ t.file.size = Zero64 =>
               /\ t.res.msg \in {"Failed to open file.", "Empty or invalid file."}
               /\ Range(t.res.ops) \subseteq {"open", "tellg"}
               /\ t.res.buf = Zero64
C16_Witness ==
  /\ Len(tasks) = 1
  /\ Done(tasks[1])
  /\ tasks[1].F = {"seek1", "read"}
  /\ tasks[1].file.head = <<"X", "X">>
  /\ ~tasks[1].file.nt
  /\ tasks[1].res.msg = "WARNING! Seeking to beginning of file failed (1)."
  /\ tasks[1].res.ops = <<"open", "tellg", "seekg">>

PlainFile(k) == EntryAt(k).kind = "file"
RanFor(k) == \E i \in 1..Len(tasks) : tasks[i].path = Extended(k) /\ Ran(tasks[i])
InRetryLoop == walk = "running" /\ stack # <<>> /\ Top.pc \in {"wait", "queue"}
\* C14 as stated: every plain file enumeration yields is eventually admitted
\* and its DumpFile eventually runs.
C14_Original == <>[](\A k \in Range(yielded) : PlainFile(k) => RanFor(k))
\* C14 amended: under fairness the loop "WaitForSlot(); QueueTask(task)" is
\* always left again, and every plain file that enumeration yields and whose
\* classification raises no error is eventually admitted and run; a plain file
\* whose classification raises an error is never admitted.
C14_RetryLoopTerminates ==
  /\ []<>(~InRetryLoop)
  /\ <>[](\A k \in Range(yielded) :
            PlainFile(k) =>
              IF <<k, "absorbed">> \in disp \/ RaisedAt(k)
                THEN ~Submitted(Extended(k))
                ELSE RanFor(k))
C14_Witness ==
  /\ walk = "returned"
  /\ fs = BurstTree(cap)
  /\ cap = MaxCap
  /\ AllTasksDone
  /\ \A k \in Range(yielded) : ~IsDotName(Name(k)) => RanFor(k)
  /\ Len(yielded) = BurstFactor * cap + 2

\* what DumpFile reports for a file when no I/O call fails
Outcome(f) ==
  LET r == DumpFileBody(f, {}) IN IF r.uncaught THEN "Error!" ELSE r.msg
\* the files of the tree below directory d, walked without following links to
\* directories, each as <<path, outcome>>
RECURSIVE FilesUnder(_, _)
FilesUnder(d, real) ==
  UNION {LET e == fs.dirs[d][n]
             p == MakeExtendedPath(Join(real, e.name))
         IN  IF e.kind \in {"file", "filelink"} THEN {<<p, Outcome(e.file)>>}
             ELSE IF e.kind = "dir" THEN FilesUnder(e.dir, PathReal(p))
             ELSE {}
           : n \in 1..Len(fs.dirs[d])}
Outcomes == FilesUnder(1, PathReal(fs.root))
\* C15: the per-file outcomes of a walk are a function of the tree alone: in
\* every interleaving and for every capacity a task that no I/O fault touched
\* ends with the outcome its file determines, and a walk that returned with all
\* tasks complete and no fault has exactly one outcome for each file of the
\* tree, so two walks of the same tree yield the same multiset.
C15_SameOutcomes ==
  /\ \A i \in 1..Len(tasks) :
       (Returned(tasks[i]) /\ tasks[i].res.failed = "none")
         => <<tasks[i].path, tasks[i].res.msg>> \in Outcomes
  /\ (walk = "returned" /\ AllTasksDone /\ faults = 0) =>
       /\ Len(tasks) = Cardinality(Outcomes)
       /\ \A o \in Outcomes :
            Cardinality({i \in 1..Len(tasks) : <<tasks[i].path, tasks[i].res.msg>> = o}) = 1
C15_Witness ==
  /\ walk = "returned"
  /\ AllTasksDone
  /\ faults = 0
  /\ fs = MixedTree
  /\ cap = MaxCap
  /\ {tasks[i].res.msg : i \in 1..Len(tasks)}
       = {"dumped", "Not a PE file or wrong architecture (Pass 2).",
          "File too large to be a valid PE."}

IsAncestor(a, b) == Len(a) < Len(b) /\ SubSeq(b, 1, Len(a)) = a
HasPath(m) == m.msg \in {"Entering dir", "Current path"}
\* the path of a message, as cur_path writes it
PathOf(m) == MakeExtendedPath(PathReal(m.path))
Announcements == SelectSeq(out, LAMBDA m : m.msg = "Current path")
YieldedNamed == SelectSeq(yielded, LAMBDA k : ~IsDotName(Name(k)))
PreOrder ==
  \* a directory is announced as entered before any of its entries
  /\ \A j \in 1..Len(out) :
       out[j].msg = "Current path" =>
         \E i \in 1..(j - 1) :
           out[i].msg = "Entering dir" /\ PathOf(out[i]) = Parent(out[j].path)
  \* a subdirectory is entered right after its own announcement
  /\ \A j \in 2..Len(out) :
       out[j].msg = "Entering dir" => out[j - 1] = Msg("Current path", out[j].path)
  \* a task exists only for an announced path
  /\ \A i \in 1..Len(tasks) : \E j \in 1..Len(out) : out[j] = Msg("Current path", tasks[i].path)
  \* the announcements follow the order of enumeration
  /\ Len(Announcements) \in {Len(YieldedNamed) - 1, Len(YieldedNamed)}
  /\ \A n \in 1..Len(Announcements) : Announcements[n].path = Extended(YieldedNamed[n])
  \* what lies between an entry's announcement and a message of its subtree
  \* belongs to that subtree
  /\ \A i \in 1..Len(out) :
       out[i].msg = "Current path" =>
         \A l \in (i + 1)..Len(out) :
           (HasPath(out[l]) /\ IsAncestor(out[i].path, PathOf(out[l]))) =>
             \A j \in (i + 1)..l :
               HasPath(out[j]) =>
                 (PathOf(out[j]) = out[i].path \/ IsAncestor(out[i].path, PathOf(out[j])))
\* a task is admitted while its file is the last entry announced
AdmitStep ==
  Len(tasks') > Len(tasks) =>
    /\ out' = out
    /\ out[Len(out)] = Msg("Current path", tasks'[Len(tasks')].path)
\* C17: on the traversal thread "Entering dir" of a directory precedes the
\* "Current path" of each of its entries, the "Current path" of an entry
\* precedes its recursion or the admission of its task, entries are announced
\* in the order enumeration yields them, and everything announced below a
\* subdirectory comes before the next sibling's announcement.
C17_PreOrder == [](PreOrder) /\ [][AdmitStep]_vars
C17_Witness ==
  /\ walk = "returned"
  /\ faults = 0
  /\ \E i, j, l \in 1..Len(out) :
       /\ i < j /\ j < l
       /\ out[i].msg = "Current path" /\ out[j].msg = "Current path" /\ out[l].msg = "Current path"
       /\ Parent(out[j].path) = out[i].path
       /\ Parent(out[l].path) = Parent(out[i].path)
       /\ Submitted(out[j].path) /\ Submitted(out[l].path)

\* the tasks DumpDir submitted
Own == {i \in 1..Len(tasks) : tasks[i].path # <<>>}
OncePerFile ==
  /\ \A i, j \in Own : i # j => tasks[i].path # tasks[j].path
  /\ \A i \in Own :
       \E k \in Range(yielded) : Extended(k) = tasks[i].path /\ <<k, "submitted">> \in disp
  /\ \A d \in disp :
       (d[2] = "refused" /\ <<d[1], "submitted">> \notin disp) => ~Submitted(Extended(d[1]))
\* a QueueTask that returns false leaves the pool as it was and the loop
\* repeats; a task that ran never goes back to the queue
RefusedStep ==
  /\ (Walking("queue") /\ ~SlotFree /\ stack' # stack) =>
       /\ tasks' = tasks
       /\ stack' = SetTop([Top EXCEPT !.pc = "wait"])
  /\ Len(tasks') >= Len(tasks)
  /\ \A i \in 1..Len(tasks) :
       /\ tasks'[i].path = tasks[i].path
       /\ tasks[i].pc # "queued" => tasks'[i].pc # "queued"
\* C18: within one walk there is at most one task, so at most one DumpFile run,
\* for each file enumeration yields: a QueueTask that returns false admits
\* nothing, and the retry that follows admits the task once.
C18_AtMostOnce == [](OncePerFile) /\ [][RefusedStep]_vars
C18_Witness ==
  /\ walk = "returned"
  /\ \E k \in Range(yielded) :
       /\ <<k, "refused">> \in disp
       /\ <<k, "submitted">> \in disp
       /\ Cardinality({i \in Own : tasks[i].path = Extended(k)}) = 1
       /\ \A i \in Own : tasks[i].path = Extended(k) => Done(tasks[i])

\* C19: a task that ends in the handler of DumpFile prints as 'Current file'
\* the path it was itself processing, for every capacity and interleaving.
C19_Original ==
  \A i \in 1..Len(tasks) :
    (Returned(tasks[i]) /\ tasks[i].res.uncaught) => tasks[i].seen = tasks[i].path
\* with one slot no other task starts between a task's SetCurrentFilePath and
\* its handler, and the path printed is the task's own
C19_SingleSlot ==
  \A i \in 1..Len(tasks) :
    (Returned(tasks[i]) /\ tasks[i].res.uncaught) =>
      /\ cap = 1 => tasks[i].seen = tasks[i].path
      /\ \E j \in 1..Len(tasks) : Started(tasks[j]) /\ tasks[i].seen = tasks[j].path

\* between WaitForSlot and QueueTask the tasks in flight only get fewer, and
\* the QueueTask that follows admits the task
SingleSubmitterStep ==
  /\ Len(tasks') = Len(tasks) =>
       {i \in 1..Len(tasks) : tasks'[i].pc # "done"} \subseteq InFlight
  /\ (Walking("queue") /\ stack' # stack) =>
       /\ tasks' = Append(tasks, NewTask(Top.cur))
       /\ stack' = SetTop([Top EXCEPT !.pc = "next"])
\* C20: with DumpDir as the only submitter a slot is free whenever the walker
\* is at QueueTask, so the first QueueTask after WaitForSlot admits the task
\* and no file's loop body runs twice.
C20_FirstQueueSucceeds ==
  /\ []((Walking("queue") => SlotFree) /\ (\A d \in disp : d[2] # "refused"))
  /\ [][SingleSubmitterStep]_vars
C20_Witness ==
  /\ Walking("queue")
  /\ fs = BurstTree(cap)
  /\ cap = MaxCap
  /\ Len(tasks) > cap
  /\ Cardinality(InFlight) = cap - 1

====
